---- MODULE Spec2Model ----
(***************************************************************************)
(* Model of src/gradio_app.py: the punctuation-aware segmenter             *)
(* _split_text_by_punctuation and the generator synthesize.                *)
(*                                                                         *)
(* A Python str is a sequence of characters.  A character of the model is  *)
(* a record [c |-> <the character>, at |-> <its index in the argument>]:   *)
(* `at` is a ghost field that the code never reads; it records where a     *)
(* character of a chunk came from (0 for a space the packer inserts).      *)
(* An Optional value is <<>> (None) or <<v>>.                              *)
(***************************************************************************)
EXTENDS Integers, Sequences, FiniteSets, TLC

\* ---------------------------------------------------------------- bounds
\* longest text handed to either entry point
MaxLen == 6
\* largest max_chunk_len handed to a direct call of the segmenter
MaxChunkLen == 5
\* largest elapsed time (in ticks) measured around one model call
MaxElapsed == 1

\* ------------------------------------------------------ program constants
\* gradio_app.py:25-26 sets 8000 and 250; the model scales both down so that
\* texts on either side of each limit can be enumerated.
MAX_TEXT_LEN == 5
MAX_CHARS_PER_CHUNK == 2

\* ------------------------------------------------------------ characters
Letters == {"a"}
Spaces == {" "}
\* the character class [.!?;:U+2026] of the regular expression
\* (U+2026, the horizontal ellipsis, is written "ELLIPSIS")
Punct == {".", "!", "?", ";", ":", "ELLIPSIS"}
\* the characters the enumerated inputs are built from
Alphabet == Letters \cup Spaces \cup {"."}

None == <<>>
Some(v) == <<v>>

IsSpace(x) == x.c \in Spaces
IsPunct(x) == x.c \in Punct

Min(a, b) == IF a <= b THEN a ELSE b

\* all sequences over S of length at most n
RECURSIVE SeqsUpTo(_, _)
SeqsUpTo(S, n) ==
    IF n = 0 THEN {<<>>}
    ELSE LET shorter == SeqsUpTo(S, n - 1)
         IN  shorter \cup {Append(s, x) : s \in {t \in shorter : Len(t) = n - 1}, x \in S}

\* a str argument: its characters with their index
Tag(t) == [i \in 1..Len(t) |-> [c |-> t[i], at |-> i]]
\* the str value of a sequence of model characters
Str(s) == [i \in 1..Len(s) |-> s[i].c]

\* ------------------------------------------------------------- str.strip
RECURSIVE LStrip(_)
LStrip(s) ==
    IF s = <<>> THEN <<>>
    ELSE IF IsSpace(Head(s)) THEN LStrip(Tail(s)) ELSE s

RECURSIVE RStrip(_)
RStrip(s) ==
    IF s = <<>> THEN <<>>
    ELSE IF IsSpace(s[Len(s)]) THEN RStrip(SubSeq(s, 1, Len(s) - 1)) ELSE s

Strip(s) == RStrip(LStrip(s))

\* ---------------------------------------------------- the sentence regex
\* [^.!?;:U+2026]+ from p on: the length of the longest run (greedy)
RECURSIVE NotPunctRun(_, _)
NotPunctRun(s, p) ==
    IF p > Len(s) \/ IsPunct(s[p]) THEN 0 ELSE 1 + NotPunctRun(s, p + 1)

\* \S+ from p on: the length of the longest run
RECURSIVE NotSpaceRun(_, _)
NotSpaceRun(s, p) ==
    IF p > Len(s) \/ IsSpace(s[p]) THEN 0 ELSE 1 + NotSpaceRun(s, p + 1)

\* \s* from p on: the length of the longest run
RECURSIVE SpaceRun(_, _)
SpaceRun(s, p) ==
    IF p > Len(s) \/ ~IsSpace(s[p]) THEN 0 ELSE 1 + SpaceRun(s, p + 1)

\* [^.!?;:U+2026]+[.!?;:U+2026] tried at p: index of the last matched
\* character, 0 if no match.  The greedy run stops at the first punctuation or at the end; giving
\* characters back never helps, since every character of the run is not
\* punctuation.
Alt1End(s, p) ==
    LET k == NotPunctRun(s, p)
    IN  IF k >= 1 /\ p + k <= Len(s) /\ IsPunct(s[p + k]) THEN p + k ELSE 0

\* $ without re.MULTILINE: at the end, or before a newline that ends the string
AtEnd(s, i) == i = Len(s) + 1 \/ (i = Len(s) /\ s[i].c = "\n")

\* \S+\s*$ tried at p: index of the last matched character, 0 if no match.
\* \S+ cannot give characters back (the next character would be non-space and
\* not the end); \s* gives back at most the final newline.
Alt2End(s, p) ==
    LET r == NotSpaceRun(s, p)
        w == SpaceRun(s, p + r)
    IN  IF r = 0 THEN 0
        ELSE IF AtEnd(s, p + r + w) THEN p + r + w - 1
        ELSE IF w >= 1 /\ AtEnd(s, p + r + w - 1) THEN p + r + w - 2
        ELSE 0

\* the alternation: the first alternative that matches at p wins
MatchEnd(s, p) ==
    IF Alt1End(s, p) # 0 THEN Alt1End(s, p) ELSE Alt2End(s, p)

\* sentence_end_re.finditer(text) from position p: the matches left to right,
\* non-overlapping; a position where nothing matches is skipped
RECURSIVE finditer(_, _)
finditer(s, p) ==
    IF p > Len(s) THEN <<>>
    ELSE LET e == MatchEnd(s, p)
         IN  IF e = 0 THEN finditer(s, p + 1)
             ELSE <<SubSeq(s, p, e)>> \o finditer(s, e + 1)

\* [m.group(0).strip() for m in sentence_end_re.finditer(text)]
Sentences(s) ==
    LET ms == finditer(s, 1)
        stripped == [i \in 1..Len(ms) |-> Strip(ms[i])]
    IN  IF stripped = <<>> THEN <<s>> ELSE stripped

\* -------------------------------------------------------------- packing
JoinSpace == [c |-> " ", at |-> 0]

\* line 88: sent[i : i + max_chunk_len].strip(), i counted from 0
Slice(sent, i, m) == Strip(SubSeq(sent, i + 1, Min(i + m, Len(sent))))

\* (mutant) the slice is appended without the `if sub` test
SliceChunksUnchecked(sub) == <<sub>>

\* lines 89-90: if sub: chunks.append(sub)
SliceChunks(sub) == IF sub # <<>> THEN <<sub>> ELSE <<>>

\* lines 87-90: for i in range(i0, len(sent), m), the chunks appended
RECURSIVE HardSlice(_, _, _)
HardSlice(sent, i0, m) ==
    IF i0 >= Len(sent) THEN <<>>
    ELSE SliceChunks(Slice(sent, i0, m)) \o HardSlice(sent, i0 + m, m)

\* (mutant) the joining space is not counted
FitsNoSpace(current, sent, m) == Len(current) + Len(sent) <= m

\* (mutant) a chunk of exactly max_chunk_len characters is refused
FitsStrict(current, sent, m) == Len(current) + 1 + Len(sent) < m

\* line 95: the sentence still fits the running chunk
Fits(current, sent, m) == Len(current) + 1 + Len(sent) <= m

\* (mutant) the sentence is put in front of the running chunk
JoinBefore(current, sent) == sent \o <<JoinSpace>> \o current

\* line 96: f"{current} {sent}"
Join(current, sent) == current \o <<JoinSpace>> \o sent

\* lines 84-86: if current: chunks.append(current.strip())
Flush(chunks, current) ==
    IF current # <<>> THEN Append(chunks, Strip(current)) ELSE chunks

\* (mutant) the flush after the loop is forgotten
FinalFlushForgotten(chunks, current) == chunks

\* lines 101-102: the flush after the loop
FinalFlush(chunks, current) ==
    IF current # <<>> THEN Append(chunks, Strip(current)) ELSE chunks

\* the body of `for sent in sentences` from sentence k on, then the final flush
RECURSIVE Pack(_, _, _, _, _)
Pack(sents, k, chunks, current, m) ==
    IF k > Len(sents)
    THEN FinalFlush(chunks, current)
    ELSE LET sent == sents[k]
         IN  IF sent = <<>> THEN Pack(sents, k + 1, chunks, current, m)
             ELSE IF Len(sent) > m
             THEN Pack(sents, k + 1, Flush(chunks, current) \o HardSlice(sent, 0, m),
                       <<>>, m)
             ELSE IF current = <<>> THEN Pack(sents, k + 1, chunks, sent, m)
             ELSE IF Fits(current, sent, m)
             THEN Pack(sents, k + 1, chunks, Join(current, sent), m)
             ELSE Pack(sents, k + 1, Append(chunks, Strip(current)), sent, m)

\* _split_text_by_punctuation(text, max_chunk_len), on model characters
split_text_by_punctuation(t, m) ==
    LET s == Strip(t)
    IN  IF s = <<>> THEN <<>> ELSE Pack(Sentences(s), 1, <<>>, <<>>, m)

\* the List[str] the caller receives
SplitStr(t, m) ==
    LET cs == split_text_by_punctuation(Tag(t), m)
    IN  [i \in 1..Len(cs) |-> Str(cs[i])]

\* ------------------------------------------------------------------ state
VARIABLES
    pc,             \* where the running call stands
    arg_text,       \* the text argument: Optional for synthesize, a str for the segmenter
    arg_normalize,  \* the normalize argument of synthesize
    arg_max,        \* the max_chunk_len argument of a direct call of the segmenter
    result,         \* what a direct call of the segmenter returned (model characters)
    text,           \* synthesize: the local text after line 109
    raw_chunks,     \* synthesize: the chunks of line 125
    idx,            \* synthesize: the loop index of line 142 (1-based)
    chunk_text,     \* synthesize: the text of line 143
    audios,         \* synthesize: the list of line 138
    total_elapsed,  \* synthesize: the sum of line 139/145
    events,         \* the tuples the generator has yielded so far
    log             \* ghost: the calls made to the segmenter, the normalizer and the model

vars == <<pc, arg_text, arg_normalize, arg_max, result, text, raw_chunks, idx,
          chunk_text, audios, total_elapsed, events, log>>

\* the locals of the synthesis loop
loop_vars == <<raw_chunks, idx, chunk_text, audios, total_elapsed>>
\* the arguments of the call
args == <<arg_text, arg_normalize, arg_max>>

Texts == SeqsUpTo(Alphabet, MaxLen)

\* the non-empty waveforms the model is let return, and the empty one
Waveforms == {<<>>, <<1>>, <<2>>}

\* what NORMALIZER.normalize may return for a chunk: any str; the model tries
\* the chunk itself and a longer text
NormalizerOutputs(chunk) == {chunk, chunk \o <<"a">>}

\* (mutant) the text is not trimmed
TrimmedNoStrip(arg) == IF arg = None THEN <<>> ELSE arg[1]

\* line 109: (text or "").strip()
Trimmed(arg) == IF arg = None THEN <<>> ELSE Str(Strip(Tag(arg[1])))

\* (mutant) the limit is off by one
TooLongOffByOne(t) == Len(t) > MAX_TEXT_LEN + 1

\* line 114: len(text) > MAX_TEXT_LEN
TooLong(t) == Len(t) > MAX_TEXT_LEN

\* (mutant) only a missing waveform is tested for
IsEmptyAudioNoneOnly(audio) == audio = None

\* line 147: audio is None or len(audio) == 0
IsEmptyAudio(audio) == audio = None \/ Len(audio[1]) = 0

\* the texts str(exc) of the exceptions the normalizer and the model may raise
Exceptions == {"exc1", "exc2"}

\* a yielded tuple (audio, status, file); the status message is its kind and
\* the values it is formatted from: numbers, or the text of an exception
Event(kind, n) ==
    [audio |-> None, file |-> None, kind |-> kind, n |-> n, elapsed |-> 0,
     cause |-> None]

\* (mutant) the message names the chunk and leaves the exception out
ErrorEventWithIndexOnly(exc, i) == Event("InferenceError", i)

\* line 154: the message is formatted from exc alone; idx is in scope and unused
ErrorEvent(exc, i) == [Event("InferenceError", 0) EXCEPT !.cause = Some(exc)]

\* a ghost record of one call to a collaborator
Call(op, i, arg, audio, elapsed) ==
    [op |-> op, idx |-> i, arg |-> arg, audio |-> audio, elapsed |-> elapsed,
     exc |-> None]

\* a ghost record of a call that raised exc
Raised(op, i, arg, exc) == [Call(op, i, arg, None, 0) EXCEPT !.exc = Some(exc)]

\* (mutant) the waveforms are joined last to first
RECURSIVE ConcatenateReversed(_)
ConcatenateReversed(as) ==
    IF as = <<>> THEN <<>> ELSE ConcatenateReversed(Tail(as)) \o Head(as)

\* np.concatenate(audios)
RECURSIVE Concatenate(_)
Concatenate(as) ==
    IF as = <<>> THEN <<>> ELSE Head(as) \o Concatenate(Tail(as))

InitLocals ==
    /\ result = <<>>
    /\ text = <<>>
    /\ raw_chunks = <<>>
    /\ idx = 0
    /\ chunk_text = <<>>
    /\ audios = <<>>
    /\ total_elapsed = 0
    /\ events = <<>>
    /\ log = <<>>

\* a call of synthesize(text, speaker_label, normalize) about to start
InitSynthesize ==
    /\ pc = "start"
    /\ arg_text \in {None} \cup {Some(t) : t \in Texts}
    /\ arg_normalize \in BOOLEAN
    /\ arg_max = MAX_CHARS_PER_CHUNK
    /\ InitLocals

\* a call of _split_text_by_punctuation(text, max_chunk_len) about to start
InitSplit ==
    /\ pc = "split_call"
    /\ arg_text \in Texts
    /\ arg_normalize = FALSE
    /\ arg_max \in 1..MaxChunkLen
    /\ InitLocals

Init == InitSynthesize \/ InitSplit

\* ---------------------------------------------------------------- actions
\* a direct call of the segmenter runs to its return
SplitCall ==
    /\ pc = "split_call"
    /\ result' = split_text_by_punctuation(Tag(arg_text), arg_max)
    /\ pc' = "split_done"
    /\ UNCHANGED <<args, text, loop_vars, events, log>>

\* (mutant) the `return` of line 112 is missing
ValidateEmptyNoReturn ==
    /\ pc = "start"
    /\ LET t == Trimmed(arg_text)
       IN  /\ t = <<>>
           /\ text' = t
           /\ events' = Append(events, Event("EmptyInput", 0))
           /\ pc' = "segment"
    /\ UNCHANGED <<args, result, loop_vars, log>>

\* synthesize, lines 109-112: text = (text or "").strip(); empty -> one event
ValidateEmpty ==
    /\ pc = "start"
    /\ LET t == Trimmed(arg_text)
       IN  /\ t = <<>>
           /\ text' = t
           /\ events' = Append(events, Event("EmptyInput", 0))
           /\ pc' = "done"
    /\ UNCHANGED <<args, result, loop_vars, log>>

\* lines 109-116: the trimmed text is longer than MAX_TEXT_LEN
ValidateTooLong ==
    /\ pc = "start"
    /\ LET t == Trimmed(arg_text)
       IN  /\ t # <<>>
           /\ TooLong(t)
           /\ text' = t
           /\ events' = Append(events, Event("TextTooLong", Len(t)))
           /\ pc' = "done"
    /\ UNCHANGED <<args, result, loop_vars, log>>

\* (mutant) the status of line 121 is not yielded
ValidateOkSilent ==
    /\ pc = "start"
    /\ LET t == Trimmed(arg_text)
       IN  /\ t # <<>>
           /\ ~TooLong(t)
           /\ text' = t
           /\ pc' = "segment"
    /\ UNCHANGED <<args, result, loop_vars, log, events>>

\* lines 109-121: the text passes validation, the first status is yielded
ValidateOk ==
    /\ pc = "start"
    /\ LET t == Trimmed(arg_text)
       IN  /\ t # <<>>
           /\ ~TooLong(t)
           /\ text' = t
           /\ events' = Append(events, Event("Processing", 0))
           /\ pc' = "segment"
    /\ UNCHANGED <<args, result, loop_vars, log>>

\* lines 125-135: segment, then yield the failure or the chunk count
Segment ==
    /\ pc = "segment"
    /\ LET chunks == SplitStr(text, MAX_CHARS_PER_CHUNK)
       IN  /\ raw_chunks' = chunks
           /\ log' = Append(log, Call("split", 0, text, None, 0))
           /\ IF chunks = <<>>
              THEN /\ events' = Append(events, Event("NoValidContent", 0))
                   /\ pc' = "done"
              ELSE /\ events' = Append(events, Event("Generating", Len(chunks)))
                   /\ pc' = "begin"
    /\ UNCHANGED <<args, result, text, idx, chunk_text, audios, total_elapsed>>

\* lines 138-142: audios = [], total_elapsed = 0.0, the loop starts at idx 1
BeginLoop ==
    /\ pc = "begin"
    /\ audios' = <<>>
    /\ total_elapsed' = 0
    /\ idx' = 1
    /\ pc' = "loop"
    /\ UNCHANGED <<args, result, text, raw_chunks, chunk_text, events, log>>

\* line 143, normalize false: chunk_text = chunk
TakeChunk ==
    /\ pc = "loop"
    /\ idx <= Len(raw_chunks)
    /\ ~arg_normalize
    /\ chunk_text' = raw_chunks[idx]
    /\ pc' = "run"
    /\ UNCHANGED <<args, result, text, raw_chunks, idx, audios, total_elapsed, events, log>>

\* line 143, normalize true: NORMALIZER.normalize(chunk) returns some str
NormalizeChunk ==
    /\ pc = "loop"
    /\ idx <= Len(raw_chunks)
    /\ arg_normalize
    /\ \E out \in NormalizerOutputs(raw_chunks[idx]) :
          /\ chunk_text' = out
          /\ log' = Append(log, Call("normalize", idx, raw_chunks[idx], None, 0))
    /\ pc' = "run"
    /\ UNCHANGED <<args, result, text, raw_chunks, idx, audios, total_elapsed, events>>

\* (mutant) the normalizer is called outside the try: the exception escapes
NormalizeRaisesEscapes ==
    /\ pc = "loop"
    /\ idx <= Len(raw_chunks)
    /\ arg_normalize
    /\ \E exc \in Exceptions :
          log' = Append(log, Raised("normalize_raised", idx, raw_chunks[idx], exc))
    /\ pc' = "done"
    /\ UNCHANGED <<args, result, text, loop_vars, events>>

\* lines 143, 153-155: NORMALIZER.normalize(chunk) raises
NormalizeRaises ==
    /\ pc = "loop"
    /\ idx <= Len(raw_chunks)
    /\ arg_normalize
    /\ \E exc \in Exceptions :
          /\ log' = Append(log, Raised("normalize_raised", idx, raw_chunks[idx], exc))
          /\ events' = Append(events, ErrorEvent(exc, idx))
    /\ pc' = "done"
    /\ UNCHANGED <<args, result, text, loop_vars>>

\* lines 144, 51-52: _run_standard starts the clock and calls KANI_MODEL.run_model
RunModel ==
    /\ pc = "run"
    /\ log' = Append(log, Call("run_model", idx, chunk_text, None, 0))
    /\ pc' = "in_model"
    /\ UNCHANGED <<args, result, text, loop_vars, events>>

\* (mutant) a chunk without audio is skipped and the loop goes on
ModelReturnsSkipsEmpty ==
    /\ pc = "in_model"
    /\ \E audio \in {None} \cup {Some(w) : w \in Waveforms}, elapsed \in 0..MaxElapsed :
          /\ log' = Append(log, Call("returned", idx, chunk_text, audio, elapsed))
          /\ total_elapsed' = total_elapsed + elapsed
          /\ audios' = IF IsEmptyAudio(audio) THEN audios ELSE Append(audios, audio[1])
          /\ idx' = idx + 1
          /\ pc' = "loop"
    /\ UNCHANGED <<args, result, text, raw_chunks, chunk_text, events>>

\* (mutant) line 145 assigns the elapsed time instead of adding it
ModelReturnsOverwritesElapsed ==
    /\ pc = "in_model"
    /\ \E audio \in {None} \cup {Some(w) : w \in Waveforms}, elapsed \in 0..MaxElapsed :
          /\ log' = Append(log, Call("returned", idx, chunk_text, audio, elapsed))
          /\ total_elapsed' = elapsed
          /\ IF IsEmptyAudio(audio)
             THEN /\ events' = Append(events, Event("ChunkSynthesisEmpty", idx))
                  /\ pc' = "done"
                  /\ UNCHANGED <<audios, idx>>
             ELSE /\ audios' = Append(audios, audio[1])
                  /\ idx' = idx + 1
                  /\ pc' = "loop"
                  /\ UNCHANGED events
    /\ UNCHANGED <<args, result, text, raw_chunks, chunk_text>>

\* lines 52-54, 145-151: the model returns audio (None, empty or not) after
\* `elapsed` ticks
ModelReturns ==
    /\ pc = "in_model"
    /\ \E audio \in {None} \cup {Some(w) : w \in Waveforms}, elapsed \in 0..MaxElapsed :
          /\ log' = Append(log, Call("returned", idx, chunk_text, audio, elapsed))
          /\ total_elapsed' = total_elapsed + elapsed
          /\ IF IsEmptyAudio(audio)
             THEN /\ events' = Append(events, Event("ChunkSynthesisEmpty", idx))
                  /\ pc' = "done"
                  /\ UNCHANGED <<audios, idx>>
             ELSE /\ audios' = Append(audios, audio[1])
                  /\ idx' = idx + 1
                  /\ pc' = "loop"
                  /\ UNCHANGED events
    /\ UNCHANGED <<args, result, text, raw_chunks, chunk_text>>

\* (mutant) the exception is caught inside the loop, which goes on
ModelRaisesSkipsChunk ==
    /\ pc = "in_model"
    /\ log' = Append(log, Call("raised", idx, chunk_text, None, 0))
    /\ idx' = idx + 1
    /\ pc' = "loop"
    /\ UNCHANGED <<args, result, text, raw_chunks, chunk_text, audios, total_elapsed, events>>

\* lines 52, 153-155: the model raises
ModelRaises ==
    /\ pc = "in_model"
    /\ \E exc \in Exceptions :
          /\ log' = Append(log, Raised("raised", idx, chunk_text, exc))
          /\ events' = Append(events, ErrorEvent(exc, idx))
    /\ pc' = "done"
    /\ UNCHANGED <<args, result, text, loop_vars>>

\* (mutant) the final tuple carries the file but not the audio
FinishWithoutAudio ==
    /\ pc = "loop"
    /\ idx > Len(raw_chunks)
    /\ IF audios = <<>>
       THEN events' = Append(events, Event("NoAudioProduced", 0))
       ELSE LET audio_full == Concatenate(audios)
            IN  events' = Append(events,
                    [audio |-> None, file |-> Some(audio_full),
                     kind |-> "Success", n |-> Len(raw_chunks),
                     elapsed |-> total_elapsed, cause |-> None])
    /\ pc' = "done"
    /\ UNCHANGED <<args, result, text, loop_vars, log>>

\* lines 157-169: the loop is exhausted
Finish ==
    /\ pc = "loop"
    /\ idx > Len(raw_chunks)
    /\ IF audios = <<>>
       THEN events' = Append(events, Event("NoAudioProduced", 0))
       ELSE LET audio_full == Concatenate(audios)
            IN  events' = Append(events,
                    [audio |-> Some(audio_full), file |-> Some(audio_full),
                     kind |-> "Success", n |-> Len(raw_chunks),
                     elapsed |-> total_elapsed, cause |-> None])
    /\ pc' = "done"
    /\ UNCHANGED <<args, result, text, loop_vars, log>>

Next ==
    \/ SplitCall
    \/ ValidateEmpty
    \/ ValidateTooLong
    \/ ValidateOk
    \/ Segment
    \/ BeginLoop
    \/ TakeChunk
    \/ NormalizeChunk
    \/ NormalizeRaises
    \/ RunModel
    \/ ModelReturns
    \/ ModelRaises
    \/ Finish

Spec == Init /\ [][Next]_vars

\* ===================================================================
\* Properties
\* ===================================================================
\* a direct call of the segmenter has returned
SplitDone == pc = "split_done"

\* a call of synthesize is running or has ended
InSynthesize == pc \in {"start", "segment", "begin", "loop", "run", "in_model", "done"}

\* the sentence units of the argument of the direct call
ArgSentences == Sentences(Strip(Tag(arg_text)))

\* a str without its whitespace characters
RECURSIVE NoWhitespace(_)
NoWhitespace(t) ==
    IF t = <<>> THEN <<>>
    ELSE (IF Head(t) \in Spaces THEN <<>> ELSE <<Head(t)>>) \o NoWhitespace(Tail(t))

\* " ".join(chunks)
RECURSIVE JoinBySpace(_)
JoinBySpace(chunks) ==
    IF chunks = <<>> THEN <<>>
    ELSE IF Len(chunks) = 1 THEN chunks[1]
    ELSE chunks[1] \o <<" ">> \o JoinBySpace(Tail(chunks))

\* the chunks' characters in chunk order
RECURSIVE Flatten(_)
Flatten(chunks) ==
    IF chunks = <<>> THEN <<>> ELSE Head(chunks) \o Flatten(Tail(chunks))

\* the source indices of the non-whitespace characters of the chunks, in order
RECURSIVE SourceIndices(_)
SourceIndices(cells) ==
    IF cells = <<>> THEN <<>>
    ELSE (IF Head(cells).c \in Spaces THEN <<>> ELSE <<Head(cells).at>>)
             \o SourceIndices(Tail(cells))

\* C1: every chunk the segmenter returns has length at most max_chunk_len,
\* whether it was packed from sentence units or hard-sliced from an oversize one.
C1_ChunkLenBound ==
    SplitDone => \A i \in 1..Len(result) : Len(result[i]) <= arg_max

\* C1 witness: one call returned a hard-sliced piece of an oversize unit and a
\* chunk packed from a unit that fits.
C1_Witness ==
    /\ SplitDone
    /\ \E k \in 1..Len(ArgSentences), i \in 1..Len(result) :
          /\ Len(ArgSentences[k]) > arg_max
          /\ result[i] = Slice(ArgSentences[k], 0, arg_max)
    /\ \E k \in 1..Len(ArgSentences), i \in 1..Len(result) :
          /\ Len(ArgSentences[k]) <= arg_max
          /\ result[i] = ArgSentences[k]

\* C2 (as claimed): for a text with a non-whitespace character, the chunks
\* joined by single spaces and the input are the same character sequence once
\* all whitespace is deleted: nothing is dropped or duplicated.
C2_ContentPreserved ==
    (SplitDone /\ NoWhitespace(arg_text) # <<>>) =>
        NoWhitespace(JoinBySpace([i \in 1..Len(result) |-> Str(result[i])]))
            = NoWhitespace(arg_text)

\* C3: the segmenter returns the empty sequence exactly when the input is empty
\* after trimming; so synthesize, once validation passed, gets at least one
\* chunk and never yields the "no valid content" failure.
C3_EmptyIffBlank ==
    /\ SplitDone => (result = <<>> <=> \A i \in 1..Len(arg_text) : arg_text[i] \in Spaces)
    /\ InSynthesize =>
          /\ \A e \in 1..Len(events) : events[e].kind # "NoValidContent"
          /\ (\E k \in 1..Len(log) : log[k].op = "split") => raw_chunks # <<>>

\* C3 witness: synthesize has segmented a validated text into at least one chunk.
C3_Witness ==
    /\ InSynthesize
    /\ \E k \in 1..Len(log) : log[k].op = "split" /\ log[k].arg # <<>>
    /\ Len(raw_chunks) >= 1
    /\ events[Len(events)].kind = "Generating"

\* C4: the non-whitespace characters of the chunks, read in chunk order, are
\* characters of the input taken from strictly increasing positions.
C4_OrderPreserved ==
    SplitDone =>
        LET at == SourceIndices(Flatten(result))
            chars == NoWhitespace(Str(Flatten(result)))
        IN  /\ \A i \in 1..Len(at) : at[i] \in 1..Len(arg_text) /\ arg_text[at[i]] = chars[i]
            /\ \A i, j \in 1..Len(at) : i < j => at[i] < at[j]

\* C4 witness: a call returned two chunks or more, one of them packed from two
\* sentence units.
C4_Witness ==
    /\ SplitDone
    /\ Len(result) >= 2
    /\ \E i \in 1..Len(result) : \E j \in 1..Len(result[i]) : result[i][j] = JoinSpace

\* C5: no returned chunk is empty or whitespace-only.
C5_NoBlankChunk ==
    SplitDone =>
        \A i \in 1..Len(result) : \E j \in 1..Len(result[i]) : result[i][j].c \notin Spaces

\* C5 witness: a hard-slice window of an oversize unit fell entirely on whitespace.
C5_Witness ==
    /\ SplitDone
    /\ \E k \in 1..Len(ArgSentences) :
          /\ Len(ArgSentences[k]) > arg_max
          /\ \E w \in 0..Len(ArgSentences[k]) :
                /\ w * arg_max < Len(ArgSentences[k])
                /\ Slice(ArgSentences[k], w * arg_max, arg_max) = <<>>

\* the request text is missing or has no non-whitespace character
ReqBlank ==
    arg_text = None \/ \A i \in 1..Len(arg_text[1]) : arg_text[1][i] \in Spaces

\* the length of a str between its first and its last non-whitespace character
TrimmedLen(t) ==
    LET ns == {i \in 1..Len(t) : t[i] \notin Spaces}
    IN  IF ns = {} THEN 0
        ELSE (CHOOSE hi \in ns : \A i \in ns : i <= hi)
                 - (CHOOSE lo \in ns : \A i \in ns : lo <= i) + 1

\* the waveform of a log entry is missing or has no sample
NoAudio(e) == e.audio = None \/ e.audio = Some(<<>>)

\* a log entry that records the failure of a chunk
IsFailure(e) ==
    \/ e.op \in {"raised", "normalize_raised"}
    \/ e.op = "returned" /\ NoAudio(e)

IsRunModel(e) == e.op = "run_model"

\* C6: a request whose text is missing or empty after trimming yields exactly
\* one event, the empty-input failure without audio, and neither the segmenter
\* nor the normalizer nor the model is ever called.
C6_EmptyInput ==
    (InSynthesize /\ ReqBlank) =>
        /\ log = <<>>
        /\ pc \in {"start", "done"}
        /\ pc = "start" => events = <<>>
        /\ pc = "done" =>
              /\ Len(events) = 1
              /\ events[1].kind = "EmptyInput"
              /\ events[1].audio = None /\ events[1].file = None

\* C6 witness: a whitespace-only request has ended.
C6_Witness ==
    /\ InSynthesize /\ pc = "done"
    /\ arg_text # None /\ Len(arg_text[1]) >= 1
    /\ ReqBlank

\* C7 (as claimed): a request whose text, as supplied, is longer than
\* MAX_TEXT_LEN ends with the too-long failure as its only event, and neither
\* the segmenter nor the model is called.
C7_SuppliedTooLong ==
    (InSynthesize /\ arg_text # None /\ Len(arg_text[1]) > MAX_TEXT_LEN) =>
        /\ log = <<>>
        /\ pc \in {"start", "done"}
        /\ pc = "done" =>
              /\ Len(events) = 1
              /\ events[1].kind = "TextTooLong"

\* C7 (amended): a request whose text, once leading and trailing whitespace is
\* trimmed, is longer than MAX_TEXT_LEN ends with the too-long failure as its
\* only event, and neither the segmenter nor the model is called.
C7_TrimmedTooLong ==
    (InSynthesize /\ arg_text # None /\ TrimmedLen(arg_text[1]) > MAX_TEXT_LEN) =>
        /\ log = <<>>
        /\ pc \in {"start", "done"}
        /\ pc = "start" => events = <<>>
        /\ pc = "done" =>
              /\ Len(events) = 1
              /\ events[1].kind = "TextTooLong"
              /\ events[1].audio = None /\ events[1].file = None

\* C7 witness: a request whose trimmed text is too long has ended.
C7_Witness ==
    /\ InSynthesize /\ pc = "done"
    /\ arg_text # None /\ TrimmedLen(arg_text[1]) > MAX_TEXT_LEN
    /\ events # <<>>

\* C8: once the model has returned a missing or zero-length waveform for chunk
\* i, the run has ended with the failure naming chunk i; no event is a Success
\* and no event carries audio.
C8_EmptyAudioFails ==
    InSynthesize =>
        \A k \in 1..Len(log) :
            (log[k].op = "returned" /\ NoAudio(log[k])) =>
                /\ pc = "done"
                /\ events[Len(events)].kind = "ChunkSynthesisEmpty"
                /\ events[Len(events)].n = log[k].idx
                /\ \A e \in 1..Len(events) :
                      /\ events[e].kind # "Success"
                      /\ events[e].audio = None /\ events[e].file = None

\* C8 witness: chunk 1 gave audio and a later chunk gave a zero-length waveform.
C8_Witness ==
    /\ InSynthesize
    /\ audios # <<>>
    /\ \E k \in 1..Len(log) :
          log[k].op = "returned" /\ log[k].audio = Some(<<>>) /\ log[k].idx >= 2

\* C9: no chunk is submitted to the model twice, and after the failure of a
\* chunk (the normalizer or the model raised, or the waveform was empty) no
\* normalizer or model call follows.
C9_NoRetry ==
    InSynthesize =>
        \A j, k \in 1..Len(log) :
            j < k =>
                /\ (IsRunModel(log[j]) /\ IsRunModel(log[k])) => log[j].idx # log[k].idx
                /\ IsFailure(log[j]) =>
                      log[k].op \notin {"normalize", "normalize_raised", "run_model"}

\* C9 witness: a run ended on the failure of a chunk that was not the last one.
C9_Witness ==
    /\ InSynthesize /\ pc = "done"
    /\ \E k \in 1..Len(log) : IsFailure(log[k]) /\ log[k].idx < Len(raw_chunks)

\* C10: the model is called for chunks 1, 2, ... in this order without a gap;
\* the call for chunk i+1 comes after the call for chunk i returned a non-empty
\* waveform; no call comes before validation and segmentation are over.
C10_SequentialOrder ==
    InSynthesize =>
        LET calls == SelectSeq(log, IsRunModel)
        IN  /\ \A i \in 1..Len(calls) : calls[i].idx = i
            /\ \A k \in 1..Len(log) :
                  IsRunModel(log[k]) =>
                      /\ log[1].op = "split"
                      /\ Len(events) >= 2
                      /\ events[1].kind = "Processing"
                      /\ events[2].kind = "Generating"
                      /\ log[k].idx > 1 =>
                            \E j \in 1..(k - 1) :
                                /\ log[j].op = "returned"
                                /\ log[j].idx = log[k].idx - 1
                                /\ ~NoAudio(log[j])
                      /\ \A j \in 1..(k - 1) :
                            IsRunModel(log[j]) =>
                                \E r \in (j + 1)..(k - 1) :
                                    log[r].op = "returned" /\ log[r].idx = log[j].idx

\* C10 witness: the model has been called for a third chunk.
C10_Witness ==
    /\ InSynthesize
    /\ \E k \in 1..Len(log) : IsRunModel(log[k]) /\ log[k].idx = 3

\* the kinds of event that end a run: the Success and the failures
TerminalKinds ==
    {"Success", "EmptyInput", "TextTooLong", "NoValidContent", "ChunkSynthesisEmpty",
     "InferenceError", "NoAudioProduced"}

IsTerminal(e) == e.kind \in TerminalKinds

\* a count that every step of synthesize raises
Progress ==
    Len(events) + Len(log) + idx + (IF pc \in {"run", "in_model"} THEN 1 ELSE 0)

\* some step of synthesize can be taken (Segment has no guard but its pc)
CanStep ==
    \/ ENABLED ValidateEmpty \/ ENABLED ValidateTooLong \/ ENABLED ValidateOk
    \/ pc = "segment"
    \/ ENABLED BeginLoop \/ ENABLED TakeChunk
    \/ ENABLED NormalizeChunk \/ ENABLED NormalizeRaises
    \/ ENABLED RunModel \/ ENABLED ModelReturns \/ ENABLED ModelRaises
    \/ ENABLED Finish

\* C11: every run of synthesize ends, after finitely many events, in exactly one
\* terminal outcome: while the run is not over a next step exists and every
\* step raises a bounded count; when it is over the last event is the only
\* terminal one, and no event is terminal before that.
C11_OneTerminalOutcome ==
    /\ [](InSynthesize =>
            /\ pc # "done" => CanStep
            /\ pc # "done" => \A e \in 1..Len(events) : ~IsTerminal(events[e])
            /\ pc = "done" =>
                  /\ events # <<>>
                  /\ IsTerminal(events[Len(events)])
                  /\ \A e \in 1..(Len(events) - 1) : ~IsTerminal(events[e])
                  /\ ~CanStep
            /\ Progress <= 4 * Len(raw_chunks) + 6)
    /\ [][InSynthesize => Progress' > Progress]_vars

\* C11 witness: a run over three chunks has ended after two progress events.
C11_Witness ==
    /\ InSynthesize /\ pc = "done"
    /\ Len(raw_chunks) = 3
    /\ Len(events) = 3

IsReturned(e) == e.op = "returned"

\* the returns of the model recorded in the log, in order
Returns == SelectSeq(log, IsReturned)

\* the sum of the elapsed times of log entries
RECURSIVE SumElapsed(_)
SumElapsed(entries) ==
    IF entries = <<>> THEN 0 ELSE Head(entries).elapsed + SumElapsed(Tail(entries))

\* C12: an event carries audio and a file exactly when it is the final Success
\* event; every progress event and every failure event carries neither.
C12_AudioOnlyInSuccess ==
    InSynthesize =>
        \A e \in 1..Len(events) :
            /\ events[e].kind = "Success" =>
                  /\ events[e].audio # None /\ events[e].file # None
                  /\ e = Len(events) /\ pc = "done"
            /\ events[e].kind # "Success" =>
                  events[e].audio = None /\ events[e].file = None

\* C12 witness: a run has ended in Success after its two progress events.
C12_Witness ==
    /\ InSynthesize /\ pc = "done"
    /\ Len(events) = 3
    /\ events[3].kind = "Success" /\ events[3].audio # None

\* C13: the elapsed time a Success reports is the sum of the elapsed times
\* measured around the model calls of chunks 1..N, each counted once.
C13_ElapsedIsSum ==
    InSynthesize =>
        \A e \in 1..Len(events) :
            events[e].kind = "Success" =>
                /\ Len(Returns) = Len(raw_chunks)
                /\ \A i \in 1..Len(Returns) : Returns[i].idx = i
                /\ events[e].elapsed = SumElapsed(Returns)

\* C13 witness: a Success over three chunks, one measured at 0 and two at more.
C13_Witness ==
    /\ InSynthesize
    /\ events # <<>> /\ events[Len(events)].kind = "Success"
    /\ Len(Returns) = 3
    /\ \E i \in 1..3 : Returns[i].elapsed = 0
    /\ events[Len(events)].elapsed >= 2

\* C14: the waveform of a Success is the concatenation, in chunk order, of the
\* N waveforms the model returned for the N chunks, and the chunk count it
\* reports is N.
C14_WaveformIsConcatenation ==
    InSynthesize =>
        \A e \in 1..Len(events) :
            events[e].kind = "Success" =>
                /\ Len(Returns) = Len(raw_chunks)
                /\ \A i \in 1..Len(Returns) : Returns[i].idx = i /\ Returns[i].audio # None
                /\ events[e].audio =
                      Some(Flatten([i \in 1..Len(Returns) |-> Returns[i].audio[1]]))
                /\ events[e].file = events[e].audio
                /\ events[e].n = Len(raw_chunks)

\* C14 witness: a Success whose waveform joins two different chunk waveforms.
C14_Witness ==
    /\ InSynthesize
    /\ events # <<>> /\ events[Len(events)].kind = "Success"
    /\ events[Len(events)].audio = Some(<<2, 1>>)

\* a str without its leading and trailing whitespace
TrimChars(t) ==
    LET ns == {i \in 1..Len(t) : t[i] \notin Spaces}
    IN  IF ns = {} THEN <<>>
        ELSE SubSeq(t, CHOOSE lo \in ns : \A i \in ns : lo <= i,
                       CHOOSE hi \in ns : \A i \in ns : i <= hi)

\* a str cut after each terminal punctuation character; what follows the last
\* one is a piece of its own unless it is blank
RECURSIVE PiecesOf(_)
PiecesOf(t) ==
    LET ps == {i \in 1..Len(t) : t[i] \in Punct}
    IN  IF ps = {}
        THEN IF TrimChars(t) = <<>> THEN <<>> ELSE <<t>>
        ELSE LET e == CHOOSE i \in ps : \A j \in ps : i <= j
             IN  <<SubSeq(t, 1, e)>> \o PiecesOf(SubSeq(t, e + 1, Len(t)))

\* the trimmed pieces of the argument of the direct call
ArgUnits ==
    LET ps == PiecesOf(arg_text) IN [i \in 1..Len(ps) |-> TrimChars(ps[i])]

\* the returned chunks as str values
ResultStr == [i \in 1..Len(result) |-> Str(result[i])]

\* the sum of the lengths of a sequence of str
RECURSIVE TotalLen(_)
TotalLen(us) == IF us = <<>> THEN 0 ELSE Len(Head(us)) + TotalLen(Tail(us))

\* C15 (as claimed): a text without terminal punctuation is one unit, the
\* trimmed text: when it is longer than max_chunk_len the result is its
\* consecutive max_chunk_len-wide slices, each trimmed, empty ones left out.
C15_UnpunctuatedIsOneUnit ==
    (/\ SplitDone
     /\ \A i \in 1..Len(arg_text) : arg_text[i] \notin Punct
     /\ Len(TrimChars(arg_text)) > arg_max) =>
        LET slices == HardSlice(Strip(Tag(arg_text)), 0, arg_max)
        IN  ResultStr = [i \in 1..Len(slices) |-> Str(slices[i])]

\* C16: when the input is made of sentence units, each some text ending in one
\* terminal punctuation character, and their lengths plus one space between
\* neighbours total at most max_chunk_len, the result is one chunk: the units
\* joined by single spaces.
C16_UnitsPackIntoOneChunk ==
    (/\ SplitDone
     /\ ArgUnits # <<>>
     /\ \A k \in 1..Len(ArgUnits) :
           Len(ArgUnits[k]) >= 2 /\ ArgUnits[k][Len(ArgUnits[k])] \in Punct
     /\ TotalLen(ArgUnits) + Len(ArgUnits) - 1 <= arg_max) =>
        ResultStr = <<JoinBySpace(ArgUnits)>>

\* C16 witness: two sentence units came back as one chunk.
C16_Witness ==
    /\ SplitDone
    /\ Len(ArgUnits) = 2
    /\ \A k \in 1..2 : Len(ArgUnits[k]) >= 2 /\ ArgUnits[k][Len(ArgUnits[k])] \in Punct
    /\ TotalLen(ArgUnits) + 1 <= arg_max
    /\ Len(result) = 1

\* C17 (as claimed): every text passed to the model is at most
\* MAX_CHARS_PER_CHUNK characters long, whatever the normalize flag and the
\* normalizer.
C17_ModelTextBounded ==
    InSynthesize =>
        \A k \in 1..Len(log) :
            IsRunModel(log[k]) => Len(log[k].arg) <= MAX_CHARS_PER_CHUNK

\* a log entry that records a raise of the normalizer or of the model
IsRaise(e) == e.op \in {"raised", "normalize_raised"}

\* C18: when the normalizer or the model raises on chunk i the run ends at
\* once with one failure event, the inference error, without audio; the raise
\* is neither left without an event nor followed by further work, and no event
\* of the run carries the waveforms of the chunks before i.
C18_RaiseBecomesOneFailure ==
    InSynthesize =>
        \A k \in 1..Len(log) :
            IsRaise(log[k]) =>
                /\ k = Len(log)
                /\ pc = "done"
                /\ events # <<>>
                /\ events[Len(events)].kind = "InferenceError"
                /\ events[Len(events)].cause # None
                /\ \A e \in 1..Len(events) :
                      /\ events[e].audio = None /\ events[e].file = None
                      /\ IsTerminal(events[e]) => e = Len(events)

\* C18 witness: the normalizer raised on a chunk after the first, whose
\* waveform had been collected.
C18_Witness ==
    /\ InSynthesize
    /\ audios # <<>>
    /\ \E k \in 1..Len(log) : log[k].op = "normalize_raised" /\ log[k].idx >= 2

\* C19 (as claimed): when the model raises on chunk i, the failure names the
\* 1-based index i together with the cause.
C19_FailureNamesChunk ==
    InSynthesize =>
        \A k \in 1..Len(log) :
            log[k].op = "raised" =>
                /\ events[Len(events)].kind = "InferenceError"
                /\ events[Len(events)].cause = log[k].exc
                /\ events[Len(events)].n = log[k].idx

\* C19 (amended): when the model raises on chunk i, the failure is the
\* inference error carrying the cause, the text of the exception, and nothing
\* else: it does not name the chunk.
C19_FailureCarriesCauseOnly ==
    InSynthesize =>
        \A k \in 1..Len(log) :
            log[k].op = "raised" =>
                /\ events[Len(events)].kind = "InferenceError"
                /\ events[Len(events)].cause = log[k].exc
                /\ events[Len(events)].cause # None
                /\ events[Len(events)].n = 0

\* C19 witness: the model raised on a chunk after the first.
C19_Witness ==
    /\ InSynthesize
    /\ \E k \in 1..Len(log) : log[k].op = "raised" /\ log[k].idx >= 2

\* the request passes validation: some non-whitespace character, and at most
\* MAX_TEXT_LEN characters once trimmed
ReqValid ==
    /\ ~ReqBlank
    /\ TrimmedLen(arg_text[1]) <= MAX_TEXT_LEN

\* C20: a request that passes validation yields the text-processing status
\* before the segmenter is called, then the status announcing the chunk count N
\* after segmentation and before the first model call, and no other progress
\* event; N is the number of chunks synthesized and the count in the Success.
C20_ProgressOrder ==
    (InSynthesize /\ ReqValid) =>
        /\ pc = "start" => events = <<>> /\ log = <<>>
        /\ pc = "segment" =>
              /\ Len(events) = 1 /\ events[1].kind = "Processing"
              /\ log = <<>>
        /\ pc = "begin" =>
              /\ Len(events) = 2
              /\ Len(log) = 1
        /\ pc \notin {"start", "segment"} =>
              /\ Len(events) \in {2, 3}
              /\ events[1].kind = "Processing"
              /\ events[2].kind = "Generating"
              /\ events[2].n = Len(raw_chunks)
              /\ log[1].op = "split"
              /\ Len(events) = 3 =>
                    /\ IsTerminal(events[3])
                    /\ pc = "done"
                    /\ events[3].kind = "Success" =>
                          /\ events[3].n = events[2].n
                          /\ Len(Returns) = events[2].n
                          /\ \A i \in 1..Len(Returns) : ~NoAudio(Returns[i])

\* C20 witness: a Success after the two progress events of a run over three chunks.
C20_Witness ==
    /\ InSynthesize /\ ReqValid
    /\ Len(events) = 3
    /\ events[3].kind = "Success"
    /\ events[2].n = 3

====
